---- MODULE Spec2Model ----
(***************************************************************************)
(* A model of the contact-extraction pipeline (dejobsextract.py) and of    *)
(* the bulk sender's main loop (gmail_bulk_send_oauth.py).                 *)
(*                                                                         *)
(* Python str values are TLA+ strings; a character is a string of length   *)
(* one.  The alphabet is ASCII: letters, digits, the punctuation the       *)
(* regular expressions name, and the whitespace characters.  The two       *)
(* typographic quotation marks of build_custom_line, which a TLA+ string   *)
(* cannot hold, are written LDQUO and RDQUO: one character each, the ASCII *)
(* quotation mark.                                                         *)
(***************************************************************************)
EXTENDS Integers, Sequences, FiniteSets, TLC

VARIABLES
    pc,           \* where the running program stands
    arg,          \* the arguments of the function being applied
    ret,          \* what it returned
    data,         \* extract_contacts: the chat document
    msg_i,        \* extract_contacts: messages consumed by the for loop
    seen_emails,  \* extract_contacts: the seen-set
    contacts,     \* extract_contacts: the list being built
    file_lines,   \* bulk sender: the lines of EMAIL_LIST_FILE
    recipients,   \* bulk sender: main's recipients
    attempts      \* bulk sender: the send attempts made so far, in order

vars == <<pc, arg, ret, data, msg_i, seen_emails, contacts,
          file_lines, recipients, attempts>>

------------------------------------------------------------------------------
(* Characters and the str methods the code calls.                          *)

LowerChars == "abcdefghijklmnopqrstuvwxyz"
UpperChars == "ABCDEFGHIJKLMNOPQRSTUVWXYZ"
DigitChars == "0123456789"

Ch(s, i) == SubSeq(s, i, i)
CharsOf(s) == {Ch(s, i) : i \in 1..Len(s)}

LowerSet == CharsOf(LowerChars)
UpperSet == CharsOf(UpperChars)
LetterSet == LowerSet \cup UpperSet
DigitSet == CharsOf(DigitChars)
\* \w of the re module, on the ASCII alphabet
WordSet == LetterSet \cup DigitSet \cup {"_"}
\* \s of the re module and the default of str.strip()
SpaceSet == {" ", "\t", "\n", "\r", "\f"}

ToLowerMap == [c \in UpperSet |->
                 Ch(LowerChars, CHOOSE i \in 1..Len(UpperChars) : Ch(UpperChars, i) = c)]
ToUpperMap == [c \in LowerSet |->
                 Ch(UpperChars, CHOOSE i \in 1..Len(LowerChars) : Ch(LowerChars, i) = c)]
LowerCh(c) == IF c \in UpperSet THEN ToLowerMap[c] ELSE c
UpperCh(c) == IF c \in LowerSet THEN ToUpperMap[c] ELSE c

\* The character-by-character conversions are written over a range lo..hi of
\* s, split in halves, so that a long string costs a shallow recursion.

\* str.lower()
RECURSIVE LowerRange(_, _, _)
LowerRange(s, lo, hi) ==
    IF lo > hi THEN ""
    ELSE IF lo = hi THEN LowerCh(Ch(s, lo))
    ELSE LET mid == (lo + hi) \div 2
         IN LowerRange(s, lo, mid) \o LowerRange(s, mid + 1, hi)
StrLower(s) == LowerRange(s, 1, Len(s))

\* str.title(): a letter is upper-cased when the character before it is not
\* a letter, and lower-cased otherwise.
TitleCh(s, i) ==
    LET c == Ch(s, i)
    IN IF c \notin LetterSet THEN c
       ELSE IF i > 1 /\ Ch(s, i - 1) \in LetterSet THEN LowerCh(c) ELSE UpperCh(c)
RECURSIVE TitleRange(_, _, _)
TitleRange(s, lo, hi) ==
    IF lo > hi THEN ""
    ELSE IF lo = hi THEN TitleCh(s, lo)
    ELSE LET mid == (lo + hi) \div 2
         IN TitleRange(s, lo, mid) \o TitleRange(s, mid + 1, hi)
StrTitle(s) == TitleRange(s, 1, Len(s))

\* The length of the longest run of characters of cs that starts at s[i].
RunLen(s, i, cs) ==
    IF i > Len(s) THEN 0
    ELSE (CHOOSE j \in i..(Len(s) + 1) :
              /\ j = Len(s) + 1 \/ Ch(s, j) \notin cs
              /\ \A k \in i..(j - 1) : Ch(s, k) \in cs) - i

\* The length of the longest run of characters of cs that ends at s[i].
RunLenBack(s, i, cs) ==
    IF i < 1 THEN 0
    ELSE i - (CHOOSE j \in 0..i :
                  /\ j = 0 \/ Ch(s, j) \notin cs
                  /\ \A k \in (j + 1)..i : Ch(s, k) \in cs)

\* str.strip(chars), chars given as a set of characters
LStrip(s, cs) == SubSeq(s, 1 + RunLen(s, 1, cs), Len(s))
RStrip(s, cs) == SubSeq(s, 1, Len(s) - RunLenBack(s, Len(s), cs))
Strip(s, cs) == RStrip(LStrip(s, cs), cs)

\* str.find(sub): the 0-based index of the first occurrence, or -1
Find(s, sub) ==
    LET hits == {i \in 1..(Len(s) - Len(sub) + 1) : SubSeq(s, i, i + Len(sub) - 1) = sub}
    IN IF hits = {} THEN -1
       ELSE (CHOOSE i \in hits : \A j \in hits : i <= j) - 1

\* The index of the first character of s, from i on, that is in cs (Len(s) + 1
\* when there is none).
FirstIn(s, i, cs) ==
    IF i > Len(s) THEN Len(s) + 1
    ELSE CHOOSE j \in i..(Len(s) + 1) :
             /\ j = Len(s) + 1 \/ Ch(s, j) \in cs
             /\ \A k \in i..(j - 1) : Ch(s, k) \notin cs

\* The part of s before the first character of cs (all of s when none is in it):
\* element 0 of str.split(c, 1) and of re.split on a run of cs.
BeforeFirst(s, cs) == SubSeq(s, 1, FirstIn(s, 1, cs) - 1)

------------------------------------------------------------------------------
(* EMAIL_RE and extract_emails_list.                                       *)

\* [a-z0-9._%+-] under (?i)
EmailLocalSet == LetterSet \cup DigitSet \cup {".", "_", "%", "+", "-"}
\* [a-z0-9.-] under (?i)
EmailDomainSet == LetterSet \cup DigitSet \cup {".", "-"}
\* [\w.+-] of the lookbehind and of the lookahead
EmailGuardSet == WordSet \cup {".", "+", "-"}

\* The ways EMAIL_RE matches at position i of text: <<k, p, j>> with the local
\* part text[i..k-1], "@" at k, the domain text[k+1..p-1], "." at p, the
\* letters text[p+1..j], and the two look-arounds.
EmailMatchesAt(text, i) ==
    IF i > 1 /\ Ch(text, i - 1) \in EmailGuardSet
    THEN {}
    ELSE UNION { UNION { { <<k, p, j>> :
                             j \in { jj \in (p + 2)..(p + RunLen(text, p + 1, LetterSet)) :
                                       jj = Len(text) \/ Ch(text, jj + 1) \notin EmailGuardSet } } :
                         p \in { pp \in (k + 2)..(k + 1 + RunLen(text, k + 1, EmailDomainSet)) :
                                   pp <= Len(text) /\ Ch(text, pp) = "." } } :
                 k \in { kk \in (i + 1)..(i + RunLen(text, i, EmailLocalSet)) :
                           kk <= Len(text) /\ Ch(text, kk) = "@" } }

\* The quantifiers are greedy: the match the engine returns is the one with
\* the longest local part, then the longest domain, then the longest tld.
EmailBest(ms) ==
    CHOOSE m \in ms : \A o \in ms :
        \/ m[1] > o[1]
        \/ m[1] = o[1] /\ m[2] > o[2]
        \/ m[1] = o[1] /\ m[2] = o[2] /\ m[3] >= o[3]

\* EMAIL_RE.finditer(text), from position pos: group(1) of each match, the
\* scan resuming after the end of a match.
RECURSIVE EmailFindIter(_, _)
EmailFindIter(text, pos) ==
    LET starts == {p \in pos..Len(text) : EmailMatchesAt(text, p) # {}}
    IN IF starts = {} THEN <<>>
       ELSE LET p == CHOOSE q \in starts : \A o \in starts : q <= o
                j == EmailBest(EmailMatchesAt(text, p))[3]
            IN <<SubSeq(text, p, j)>> \o EmailFindIter(text, j + 1)

\* The characters of .strip(".,;:()[]{}<>\"'")
EmailTrimSet == {".", ",", ";", ":", "(", ")", "[", "]", "{", "}", "<", ">", "\"", "'"}

\* The loop of extract_emails_list over the matches ms, with its seen set.
RECURSIVE EmailsLoop(_, _, _)
EmailsLoop(ms, seen, out) ==
    IF ms = <<>> THEN out
    ELSE LET e == Strip(Strip(Head(ms), SpaceSet), EmailTrimSet)
         IN IF e # "" /\ StrLower(e) \notin seen
            THEN EmailsLoop(Tail(ms), seen \cup {StrLower(e)}, Append(out, e))
            ELSE EmailsLoop(Tail(ms), seen, out)

extract_emails_list(text) == EmailsLoop(EmailFindIter(text, 1), {}, <<>>)

------------------------------------------------------------------------------
(* flatten_text.  A text field is [kind, s, items, n]: kind "none" (None),  *)
(* "str" (s), "list" (items) or "int" (another scalar, n); an item of a list *)
(* is [kind, s, n]: "str" (s), "dict" (an object whose "text" is s),         *)
(* "dict_notext" (an object without "text") or "int" (another type, n).      *)

\* str(n) of a natural number
RECURSIVE IntToStr(_)
IntToStr(n) ==
    IF n < 10 THEN Ch(DigitChars, n + 1)
    ELSE IntToStr(n \div 10) \o Ch(DigitChars, (n % 10) + 1)

FlattenItem(item) ==
    CASE item.kind = "str" -> item.s
      [] item.kind = "dict" -> item.s
      [] item.kind = "dict_notext" -> ""
      [] OTHER -> IntToStr(item.n)

RECURSIVE JoinParts(_)
JoinParts(items) ==
    IF items = <<>> THEN "" ELSE FlattenItem(Head(items)) \o JoinParts(Tail(items))

flatten_text(text_field) ==
    CASE text_field.kind = "none" -> ""
      [] text_field.kind = "str" -> text_field.s
      [] text_field.kind = "list" -> JoinParts(text_field.items)
      [] OTHER -> IntToStr(text_field.n)

------------------------------------------------------------------------------
(* DE_FAMILY_RE.  A sub-pattern maps the set S of positions where it may    *)
(* start to the set of positions where it may end; a position is the index  *)
(* of the next character to read, from 1 to Len(text) + 1.                  *)

\* The ASCII punctuation but "_" (a word character) and the grave accent
\* (which a TLA+ string cannot hold).
PunctChars == "!\"#$%&'()*+,-./:;<=>?@[\\]^{|}~"
\* \W on the ASCII alphabet
NonWordSet == CharsOf(PunctChars) \cup SpaceSet
\* [\s_-]
RoleSepSet == SpaceSet \cup {"_", "-"}

IsWordAt(text, p) == p >= 1 /\ p <= Len(text) /\ Ch(text, p) \in WordSet
\* \b
ReB(text, S) == {p \in S : IsWordAt(text, p - 1) # IsWordAt(text, p)}
\* a literal
ReLit(text, S, w) ==
    {p + Len(w) : p \in {q \in S : /\ q + Len(w) - 1 <= Len(text)
                                   /\ SubSeq(text, q, q + Len(w) - 1) = w}}
\* (?:w1|w2|...)
ReAlt(text, S, ws) == UNION {ReLit(text, S, w) : w \in ws}
\* [cs]*
ReStar(text, S, cs) == UNION {p..(p + RunLen(text, p, cs)) : p \in S}
\* \W*
ReW(text, S) == ReStar(text, S, NonWordSet)

EngDevWords == {"engineer", "developer", "dev"}
DeNouns == {"role", "position", "opening", "job", "hiring", "req", "requirement"}

\* The ends of the matches of each alternative of DE_FAMILY_RE, S being the
\* positions where a match may start.  The pattern is case-insensitive: its
\* literals, written in lower case, are matched against the text lower-cased.
RoleAlternatives(text, S) ==
    LET lt == StrLower(text)
        B(X) == ReB(lt, X)
        L(X, w) == ReLit(lt, X, w)
        A(X, ws) == ReAlt(lt, X, ws)
        W(X) == ReW(lt, X)
        Sb == B(S)
        DataW == W(L(Sb, "data"))
        De == W(B(L(Sb, "de")))
    IN << B(L(ReStar(text, L(Sb, "data"), RoleSepSet), "engineer")),
          B(L(DataW, "eng")),
          B(De \cup A(De, DeNouns)),
          B(L(W(L(W(L(Sb, "big")), "data")), "engineer")),
          B(A(W(L(Sb, "etl")), EngDevWords)),
          B(A(W(A(DataW, {"warehouse", "warehousing"})), EngDevWords)),
          B(A(W(L(Sb, "dwh")), EngDevWords)),
          B(L(W(L(Sb, "analytics")), "engineer")),
          B(L(W(L(Sb, "bi") \cup L(W(L(Sb, "business")), "intelligence")), "engineer")),
          B(L(W(L(DataW, "platform")), "engineer")),
          B(L(W(L(DataW, "pipeline")), "engineer")),
          B(L(W(L(W(A(Sb, {"aws", "gcp", "azure"}) \cup L(W(L(Sb, "google")), "cloud")),
                  "data")), "engineer")),
          B(L(W(L(W(L(Sb, "cloud")), "data")), "engineer")),
          B(L(W(A(Sb, {"spark", "hadoop", "kafka"})), "engineer")) >>

\* DE_FAMILY_RE.search(text) is not None
DE_FAMILY_RE_search(text) ==
    LET alts == RoleAlternatives(text, 1..(Len(text) + 1))
    IN \E a \in 1..Len(alts) : alts[a] # {}

------------------------------------------------------------------------------
(* NAME_NEAR_EMAIL_RE and guess_first_name.                                *)

NameWindow == 60
NameRunMax == 40
NameMinLen == 2

\* [\(\[\{<,:;|\-] of the re.sub
LeftSepSet == {"(", "[", "{", "<", ",", ":", ";", "|", "-"}
\* [A-Za-z .'-]
NameSet == LetterSet \cup {" ", ".", "'", "-"}
\* the characters of .strip(".,;:-_()[]{}<>\"'")
NameTrimSet == {".", ",", ";", ":", "-", "_", "(", ")", "[", "]", "{", "}", "<", ">", "\"", "'"}

\* re.sub(r"[\(\[\{<,:;|\-]+\s*$", "", s): the match is a run of separators
\* and then whitespace up to the end of s; the leftmost one is removed.
StripTrailingSep(s) ==
    LET starts == {p \in 1..Len(s) :
                     LET n == RunLen(s, p, LeftSepSet)
                     IN n >= 1 /\ p + n + RunLen(s, p + n, SpaceSet) = Len(s) + 1}
    IN IF starts = {} THEN s
       ELSE SubSeq(s, 1, (CHOOSE p \in starts : \A o \in starts : p <= o) - 1)

\* \s*<?\s*$ matches s from position q on
NameTailMatches(s, q) ==
    LET q2 == q + RunLen(s, q, SpaceSet)
        q3 == IF q2 <= Len(s) /\ Ch(s, q2) = "<" THEN q2 + 1 ELSE q2
    IN q3 + RunLen(s, q3, SpaceSet) = Len(s) + 1

\* The lengths n of [A-Za-z .'-]{1,40} with which NAME_NEAR_EMAIL_RE matches
\* s at position p.
NameMatchesAt(s, p) ==
    IF Ch(s, p) \notin LetterSet THEN {}
    ELSE LET run == RunLen(s, p + 1, NameSet)
             top == IF run < NameRunMax THEN run ELSE NameRunMax
         IN {n \in 1..top : NameTailMatches(s, p + 1 + n)}

Max(S) == CHOOSE x \in S : \A y \in S : x >= y
Min(S) == CHOOSE x \in S : \A y \in S : x <= y

\* NAME_NEAR_EMAIL_RE.search(s): [found, group1]; the leftmost start, and
\* there the longest run (the quantifier is greedy).
NameSearch(s) ==
    LET starts == {p \in 1..Len(s) : NameMatchesAt(s, p) # {}}
    IN IF starts = {} THEN [found |-> FALSE, group1 |-> ""]
       ELSE LET p == Min(starts)
            IN [found |-> TRUE, group1 |-> SubSeq(s, p, p + Max(NameMatchesAt(s, p)))]

\* re.sub(r"[^A-Za-z]", "", s)
RECURSIVE LettersRange(_, _, _)
LettersRange(s, lo, hi) ==
    IF lo > hi THEN ""
    ELSE IF lo = hi THEN (IF Ch(s, lo) \in LetterSet THEN Ch(s, lo) ELSE "")
    ELSE LET mid == (lo + hi) \div 2
         IN LettersRange(s, lo, mid) \o LettersRange(s, mid + 1, hi)
OnlyLetters(s) == LettersRange(s, 1, Len(s))

\* NameFromLocalPart without the placeholder
NameFromLocalPartNoPlaceholder(email) ==
    LET local == BeforeFirst(BeforeFirst(email, {"@"}), {"+"})
    IN StrTitle(OnlyLetters(BeforeFirst(local, {".", "_", "-"})))

\* the fallback of guess_first_name: from the email's local part
NameFromLocalPart(email) ==
    LET local == BeforeFirst(BeforeFirst(email, {"@"}), {"+"})
        token == OnlyLetters(BeforeFirst(local, {".", "_", "-"}))
    IN IF token # "" THEN StrTitle(token) ELSE "there"

\* the first branch of guess_first_name: [found, name], the name token that
\* stands before the email in text
NameNearEmail(text, email) ==
    LET idx == Find(StrLower(text), StrLower(email))
        none == [found |-> FALSE, name |-> ""]
    IN IF idx = -1 THEN none
       ELSE LET from == IF idx - NameWindow > 0 THEN idx - NameWindow ELSE 0
                left0 == Strip(SubSeq(text, from + 1, idx), SpaceSet)
                left == Strip(StripTrailingSep(left0), SpaceSet)
                m == NameSearch(left)
            IN IF ~m.found THEN none
               ELSE LET name == Strip(m.group1, SpaceSet)
                        first == Strip(BeforeFirst(name, SpaceSet), NameTrimSet)
                    IN IF first # "" /\ Len(first) >= NameMinLen
                       THEN [found |-> TRUE, name |-> StrTitle(first)]
                       ELSE none

guess_first_name(text, email) ==
    LET near == NameNearEmail(text, email)
    IN IF near.found THEN near.name ELSE NameFromLocalPart(email)

------------------------------------------------------------------------------
(* guess_company_from_email.                                               *)

\* s.split(c): the segments of s between the occurrences of c
RECURSIVE SplitOn(_, _)
SplitOn(s, c) ==
    LET k == FirstIn(s, 1, {c})
    IN IF k > Len(s) THEN <<s>>
       ELSE <<SubSeq(s, 1, k - 1)>> \o SplitOn(SubSeq(s, k + 1, Len(s)), c)

\* s.replace(a, b), a and b characters
RECURSIVE ReplaceRange(_, _, _, _, _)
ReplaceRange(s, a, b, lo, hi) ==
    IF lo > hi THEN ""
    ELSE IF lo = hi THEN (IF Ch(s, lo) = a THEN b ELSE Ch(s, lo))
    ELSE LET mid == (lo + hi) \div 2
         IN ReplaceRange(s, a, b, lo, mid) \o ReplaceRange(s, a, b, mid + 1, hi)
ReplaceCh(s, a, b) == ReplaceRange(s, a, b, 1, Len(s))

NonEmpty(p) == p # ""

\* The body of the try block: [raised, value]; raised when an index is out
\* of range (no "@" in the email, or no non-empty label in the domain).
CompanyTry(email) ==
    LET halves == IF FirstIn(email, 1, {"@"}) > Len(email) THEN <<email>>
                  ELSE <<BeforeFirst(email, {"@"}),
                         SubSeq(email, FirstIn(email, 1, {"@"}) + 1, Len(email))>>
        failed == [raised |-> TRUE, value |-> ""]
    IN IF Len(halves) < 2 THEN failed
       ELSE LET domain == StrLower(halves[2])
                parts == SelectSeq(SplitOn(domain, "."), NonEmpty)
            IN IF Len(parts) = 0 THEN failed
               ELSE LET candidate == IF Len(parts) >= 2 THEN parts[Len(parts) - 1]
                                     ELSE parts[1]
                        cleaned == Strip(ReplaceCh(ReplaceCh(candidate, "-", " "), "_", " "),
                                         SpaceSet)
                    IN [raised |-> FALSE, value |-> StrTitle(cleaned)]

\* GuessCompanyCall without the except clause
CompanyNoExcept(email) == CompanyTry(email)

\* try: ... except Exception: return "".  The outcome of the call:
\* [raised, value], raised when an exception leaves the function.
GuessCompanyCall(email) ==
    LET r == CompanyTry(email)
    IN [raised |-> FALSE, value |-> IF r.raised THEN "" ELSE r.value]

guess_company_from_email(email) == GuessCompanyCall(email).value

------------------------------------------------------------------------------
(* build_custom_line.                                                      *)

SnippetMax == 140
SnippetKeep == 137
Ellipsis == "..."
LDQUO == "\""
RDQUO == "\""
LineHead == "Saw your message in the '"
LineMiddle == "' Telegram group about data engineering-related roles: "

\* re.sub(r"\s+", " ", s): what stands for s[i] in the result: a space for
\* the first character of a run of whitespace, nothing for the rest of it.
CollapseCh(s, i) ==
    LET c == Ch(s, i)
    IN IF c \notin SpaceSet THEN c
       ELSE IF i > 1 /\ Ch(s, i - 1) \in SpaceSet THEN "" ELSE " "
RECURSIVE CollapseRange(_, _, _)
CollapseRange(s, lo, hi) ==
    IF lo > hi THEN ""
    ELSE IF lo = hi THEN CollapseCh(s, lo)
    ELSE LET mid == (lo + hi) \div 2
         IN CollapseRange(s, lo, mid) \o CollapseRange(s, mid + 1, hi)
CollapseSpaces(s) == CollapseRange(s, 1, Len(s))

\* Snippet cutting at the limit itself before it adds the marker
SnippetCutLate(message_text) ==
    LET snippet == Strip(CollapseSpaces(message_text), SpaceSet)
    IN IF Len(snippet) > SnippetMax
       THEN SubSeq(snippet, 1, SnippetMax) \o Ellipsis
       ELSE snippet

\* the snippet of build_custom_line
Snippet(message_text) ==
    LET snippet == Strip(CollapseSpaces(message_text), SpaceSet)
    IN IF Len(snippet) > SnippetMax
       THEN SubSeq(snippet, 1, SnippetKeep) \o Ellipsis
       ELSE snippet

build_custom_line(chat_name, message_text) ==
    LineHead \o chat_name \o LineMiddle \o LDQUO \o Snippet(message_text) \o RDQUO

------------------------------------------------------------------------------
(* extract_contacts: one step of the model is one pass of the for loop over *)
(* data["messages"].                                                        *)

\* ContactKey with the seen-set keyed on the email as written
ContactKeyRaw(email) == email

\* key = email.lower()
ContactKey(email) == StrLower(email)

\* PassesRoleGate with the filter left out
NoRoleGate(text) == TRUE

\* if not DE_FAMILY_RE.search(text): continue
PassesRoleGate(text) == DE_FAMILY_RE_search(text)

\* AppendContact putting the new contact first
PrependContact(cs, c) == <<c>> \o cs

\* contacts.append({...})
AppendContact(cs, c) == Append(cs, c)

MakeContact(chat_name, text, email) ==
    [email |-> email,
     first_name |-> guess_first_name(text, email),
     company |-> guess_company_from_email(email),
     custom_line |-> build_custom_line(chat_name, text)]

\* for email in emails: ... ; the result is [seen, contacts]
RECURSIVE ContactsLoop(_, _, _, _, _)
ContactsLoop(chat_name, text, emails, seen, cs) ==
    IF emails = <<>> THEN [seen |-> seen, contacts |-> cs]
    ELSE LET email == Head(emails)
             key == ContactKey(email)
         IN IF key \in seen
            THEN ContactsLoop(chat_name, text, Tail(emails), seen, cs)
            ELSE ContactsLoop(chat_name, text, Tail(emails), seen \cup {key},
                              AppendContact(cs, MakeContact(chat_name, text, email)))

\* the text of a message as the loop sees it
MessageText(msg) == Strip(flatten_text(msg.text), SpaceSet)

\* the body of the for loop for one message; the result is [seen, contacts]
ProcessMessage(chat_name, msg, seen, cs) ==
    LET skip == [seen |-> seen, contacts |-> cs]
    IN IF msg.type # "message" THEN skip
       ELSE LET text == MessageText(msg)
            IN IF text = "" THEN skip
               ELSE IF ~PassesRoleGate(text) THEN skip
               ELSE LET emails == extract_emails_list(text)
                    IN IF emails = <<>> THEN skip
                       ELSE ContactsLoop(chat_name, text, emails, seen, cs)

\* The values a variable holds while its program is not the one running.
IdleFn == arg = <<>> /\ ret = <<>>
IdleContacts ==
    /\ data = [name |-> "", messages |-> <<>>]
    /\ msg_i = 0
    /\ seen_emails = {}
    /\ contacts = <<>>
IdleSend == file_lines = <<>> /\ recipients = <<>> /\ attempts = <<>>

fnVars == <<arg, ret>>
contactVars == <<data, msg_i, seen_emails, contacts>>
sendVars == <<file_lines, recipients, attempts>>

\* The documents the model runs extract_contacts on.
MaxMessages == 3

StrField(s) == [kind |-> "str", s |-> s, items |-> <<>>, n |-> 0]
ListField(items) == [kind |-> "list", s |-> "", items |-> items, n |-> 0]
NoneField == [kind |-> "none", s |-> "", items |-> <<>>, n |-> 0]
StrItem(s) == [kind |-> "str", s |-> s, n |-> 0]
DictItem(s) == [kind |-> "dict", s |-> s, n |-> 0]
Msg(type, field) == [type |-> type, text |-> field]

MsgEtl == Msg("message", StrField("ETL Engineer a@x.com"))
MsgNoRole == Msg("message", StrField("hello b@y.com"))
MsgFragments ==
    Msg("message", ListField(<<StrItem(" Data Engineer: Ann <"), DictItem("A@X.com"),
                               StrItem("> or b@y.com, B@Y.COM\n")>>))
MsgService == Msg("service", StrField("data engineer c@z.io"))
MsgBareEngineer == Msg("message", StrField("engineer c@z.io"))
MsgTwoEmails == Msg("message", StrField("de job: b@y.com or Bob Ray <a@x.com>"))
MsgNone == Msg("message", NoneField)

MessagePool ==
    {MsgEtl, MsgNoRole, MsgFragments, MsgService, MsgBareEngineer, MsgTwoEmails, MsgNone}

ChatNames == {"DE Jobs"}

RECURSIVE SeqsUpTo(_, _)
SeqsUpTo(S, n) ==
    IF n = 0 THEN {<<>>}
    ELSE LET shorter == SeqsUpTo(S, n - 1)
         IN shorter \cup {Append(q, x) : q \in shorter, x \in S}

Documents == [name : ChatNames, messages : SeqsUpTo(MessagePool, MaxMessages)]

Init ==
    /\ pc = "loop"
    /\ data \in Documents
    /\ msg_i = 0
    /\ seen_emails = {}
    /\ contacts = <<>>
    /\ IdleFn
    /\ IdleSend

\* one pass of the for loop
LoopStep ==
    /\ pc = "loop"
    /\ msg_i < Len(data.messages)
    /\ LET r == ProcessMessage(data.name, data.messages[msg_i + 1], seen_emails, contacts)
       IN /\ seen_emails' = r.seen
          /\ contacts' = r.contacts
    /\ msg_i' = msg_i + 1
    /\ UNCHANGED <<pc, data, fnVars, sendVars>>

\* return contacts
LoopReturn ==
    /\ pc = "loop"
    /\ msg_i = Len(data.messages)
    /\ pc' = "returned"
    /\ ret' = contacts
    /\ UNCHANGED <<arg, contactVars, sendVars>>

Next == LoopStep \/ LoopReturn

Spec == Init /\ [][Next]_vars

------------------------------------------------------------------------------
(* The functions applied on their own: Init draws the arguments, the one    *)
(* action applies the function.                                             *)

\* The strings made of at most n pieces of P.
RECURSIVE Concats(_, _)
Concats(P, n) ==
    IF n = 0 THEN {""}
    ELSE LET shorter == Concats(P, n - 1)
         IN shorter \cup {q \o x : q \in shorter, x \in P}

\* ---- extract_emails_list
MaxEmailPieces == 3
EmailPieces == {"a@b.com", "A@B.com", ".", " ", ",", "@", "x", "_", "<", ">"}
EmailTextPeriod == "contact: jane.doe@example.com."
EmailTextDoubleAt == "notanemail@@x"
EmailTexts == Concats(EmailPieces, MaxEmailPieces) \cup {EmailTextPeriod, EmailTextDoubleAt}

InitEmails ==
    /\ pc = "call"
    /\ arg \in [text : EmailTexts]
    /\ ret = <<>>
    /\ IdleContacts
    /\ IdleSend

CallExtractEmails ==
    /\ pc = "call"
    /\ ret' = extract_emails_list(arg.text)
    /\ pc' = "done"
    /\ UNCHANGED <<arg, contactVars, sendVars>>

SpecEmails == InitEmails /\ [][CallExtractEmails]_vars

\* ---- guess_first_name
MaxNamePieces == 2
NamePieces == {"John Smith", " ", "<", "Reach out to", ":", "-", "J", "o'neil", "."}
\* an email, and how the text writes it ("" when the text does not hold it)
NameEmailForms ==
    { [email |-> "john.smith@acme.com", shown |-> "john.smith@acme.com"],
      [email |-> "john.smith@acme.com", shown |-> "John.Smith@ACME.com"],
      [email |-> "john.smith@acme.com", shown |-> ""],
      [email |-> "contact-info@x.io", shown |-> "contact-info@x.io"],
      [email |-> "contact-info@x.io", shown |-> ""],
      [email |-> "123@x.io", shown |-> "123@x.io"],
      [email |-> "a1+tag@x.io", shown |-> "a1+tag@x.io"],
      [email |-> "_.b@x.io", shown |-> ""] }
NameTextJohn == "Reach out to John Smith <john.smith@acme.com> for the data engineer role"
NameArgs ==
    {[text |-> pre \o f.shown \o " today", email |-> f.email] :
         pre \in Concats(NamePieces, MaxNamePieces), f \in NameEmailForms}
    \cup {[text |-> NameTextJohn, email |-> "john.smith@acme.com"],
          [text |-> "contact-info@x.io", email |-> "contact-info@x.io"]}

InitName ==
    /\ pc = "call"
    /\ arg \in NameArgs
    /\ ret = ""
    /\ IdleContacts
    /\ IdleSend

CallGuessFirstName ==
    /\ pc = "call"
    /\ ret' = guess_first_name(arg.text, arg.email)
    /\ pc' = "done"
    /\ UNCHANGED <<arg, contactVars, sendVars>>

SpecName == InitName /\ [][CallGuessFirstName]_vars

\* ---- guess_company_from_email
MaxCompanyPieces == 3
CompanyPieces == {"jane", "@", ".", "amazon", "com", "co", "my-co_x", "Mail", "-"}
CompanyEmails ==
    Concats(CompanyPieces, MaxCompanyPieces)
    \cup {"jane@amazon.com", "jane@mail.co.uk", "jane@...", "jane@big-data.io"}

InitCompany ==
    /\ pc = "call"
    /\ arg \in [email : CompanyEmails]
    /\ ret = ""
    /\ IdleContacts
    /\ IdleSend

CallGuessCompany ==
    /\ pc = "call"
    /\ LET r == GuessCompanyCall(arg.email)
       IN /\ pc' = IF r.raised THEN "raised" ELSE "done"
          /\ ret' = r.value
    /\ UNCHANGED <<arg, contactVars, sendVars>>

SpecCompany == InitCompany /\ [][CallGuessCompany]_vars

\* ---- build_custom_line
MaxBodyLen == 200
\* the first n characters of pat repeated
RECURSIVE Fill(_, _)
Fill(pat, n) == IF Len(pat) >= n THEN SubSeq(pat, 1, n) ELSE Fill(pat \o pat, n)
BodyPatterns == {"x", "ab ", "a \n b"}
BodyLeads == {"", " \t"}
LineArgs ==
    {[chat_name |-> c, message_text |-> lead \o Fill(pat, n)] :
         c \in {"DE Jobs", ""}, lead \in BodyLeads, pat \in BodyPatterns, n \in 0..MaxBodyLen}

InitLine ==
    /\ pc = "call"
    /\ arg \in LineArgs
    /\ ret = ""
    /\ IdleContacts
    /\ IdleSend

CallBuildCustomLine ==
    /\ pc = "call"
    /\ ret' = build_custom_line(arg.chat_name, arg.message_text)
    /\ pc' = "done"
    /\ UNCHANGED <<arg, contactVars, sendVars>>

SpecLine == InitLine /\ [][CallBuildCustomLine]_vars

------------------------------------------------------------------------------
(* The bulk sender: load_emails and main.                                  *)

MAX_EMAILS == 3

\* raw.split(): the tokens of s between runs of whitespace
RECURSIVE SplitWs(_)
SplitWs(s) ==
    LET rest == LStrip(s, SpaceSet)
    IN IF rest = "" THEN <<>>
       ELSE LET n == FirstIn(rest, 1, SpaceSet)
            IN <<SubSeq(rest, 1, n - 1)>> \o SplitWs(SubSeq(rest, n, Len(rest)))

\* "@" in t and "." in t.split("@", 1)[-1]
LooksLikeEmail(t) ==
    LET at == FirstIn(t, 1, {"@"})
    IN at <= Len(t) /\ FirstIn(t, at + 1, {"."}) <= Len(t)

\* the last token of the line that looks like an email, "" when none does
LineCandidate(line) ==
    LET raw == Strip(line, SpaceSet)
        split == SplitWs(raw)
        tokens == [i \in 1..Len(split) |-> Strip(split[i], {" ", ",", ";"})]
        hits == {i \in 1..Len(tokens) : LooksLikeEmail(tokens[i])}
    IN IF raw = "" \/ hits = {} THEN "" ELSE tokens[Max(hits)]

\* the loop of load_emails over the lines, with its seen set
RECURSIVE LoadLoop(_, _, _)
LoadLoop(lines, seen, emails) ==
    IF lines = <<>> THEN emails
    ELSE LET candidate == StrLower(LineCandidate(Head(lines)))
         IN IF candidate = "" THEN LoadLoop(Tail(lines), seen, emails)
            ELSE IF candidate \notin seen
                 THEN LoadLoop(Tail(lines), seen \cup {candidate}, Append(emails, candidate))
                 ELSE LoadLoop(Tail(lines), seen, emails)

load_emails(lines) == LoadLoop(lines, {}, <<>>)

\* if MAX_EMAILS: recipients = recipients[:MAX_EMAILS]
CutRecipients(rs) ==
    IF MAX_EMAILS # 0
    THEN SubSeq(rs, 1, IF Len(rs) < MAX_EMAILS THEN Len(rs) ELSE MAX_EMAILS)
    ELSE rs

\* What a send attempt ends with: the message went out, the API call raised
\* HttpError, or make_message or the call raised another Exception.
SendOutcomes == {"SENT", "HttpError", "Exception"}

\* what main prints for the attempt
SendReport(outcome) == IF outcome = "SENT" THEN "SENT" ELSE "FAIL"

\* SendOutcomePc with only HttpError caught
SendOutcomePcUncaught(outcome) == IF outcome = "Exception" THEN "aborted" ELSE "send"

\* where main stands after an attempt: both except clauses fall through to
\* the sleep and the next pass of the loop
SendOutcomePc(outcome) == "send"

MaxLines == 4
LinePool ==
    {"a@x.com", " A@X.COM, ", "Bob <b@y.com> ;", "c@z.io d@w.org", "e@v.net (hr)", "notes only"}
Files == SeqsUpTo(LinePool, MaxLines)

InitSend ==
    /\ pc = "start"
    /\ file_lines \in Files
    /\ recipients = <<>>
    /\ attempts = <<>>
    /\ IdleFn
    /\ IdleContacts

\* the two exists() checks; FileNotFoundError leaves main
CheckFiles ==
    /\ pc = "start"
    /\ \E emails_exists \in BOOLEAN, resume_exists \in BOOLEAN :
           pc' = IF emails_exists /\ resume_exists THEN "load" ELSE "aborted"
    /\ UNCHANGED <<fnVars, contactVars, sendVars>>

LoadRecipients ==
    /\ pc = "load"
    /\ recipients' = CutRecipients(load_emails(file_lines))
    /\ pc' = "auth"
    /\ UNCHANGED <<fnVars, contactVars, file_lines, attempts>>

\* get_gmail_service returns the service or raises
GetService ==
    /\ pc = "auth"
    /\ \E ok \in BOOLEAN : pc' = IF ok THEN "send" ELSE "aborted"
    /\ UNCHANGED <<fnVars, contactVars, sendVars>>

\* one pass of the for loop over recipients
SendOne ==
    /\ pc = "send"
    /\ Len(attempts) < Len(recipients)
    /\ \E outcome \in SendOutcomes :
           /\ attempts' = Append(attempts, [i |-> Len(attempts) + 1,
                                            to |-> recipients[Len(attempts) + 1],
                                            report |-> SendReport(outcome)])
           /\ pc' = SendOutcomePc(outcome)
    /\ UNCHANGED <<fnVars, contactVars, file_lines, recipients>>

\* print("Done.")
Finish ==
    /\ pc = "send"
    /\ Len(attempts) = Len(recipients)
    /\ pc' = "done"
    /\ UNCHANGED <<fnVars, contactVars, sendVars>>

NextSend == CheckFiles \/ LoadRecipients \/ GetService \/ SendOne \/ Finish

\* Inside the for loop main is one thread and every statement of the body
\* returns or raises (the send call, the prints, time.sleep(0.5)): a pass of
\* the loop that can be taken is taken, and so is the step that leaves it.
SpecSend == InitSend /\ [][NextSend]_vars /\ WF_vars(SendOne) /\ WF_vars(Finish)

------------------------------------------------------------------------------
(* The claims.                                                             *)

\* a message the loop does not skip before it looks for emails
RoleMessage(m) ==
    /\ m.type = "message"
    /\ MessageText(m) # ""
    /\ DE_FAMILY_RE_search(MessageText(m))

\* C1: after any prefix of the messages, no two Contacts of the list have the
\* same lower-cased email.
C1_UniqueEmails ==
    \A i \in 1..Len(contacts) : \A j \in 1..Len(contacts) :
        i # j => StrLower(contacts[i].email) # StrLower(contacts[j].email)

\* An address recurs in several messages and in another letter case, and the
\* list returned holds it once.
C1_Witness ==
    /\ pc = "returned"
    /\ data.messages = <<MsgEtl, MsgFragments, MsgTwoEmails>>
    /\ Len(ret) = 2
    /\ ret[1].email = "a@x.com"

\* The emails met in the role-matching messages among the first n, message
\* by message and, in a message, in the order extract_emails_list gives them:
\* a sequence of [text, email, key].
RECURSIVE C2_Occurrences(_)
C2_Occurrences(n) ==
    IF n = 0 THEN <<>>
    ELSE LET m == data.messages[n]
             text == MessageText(m)
             emails == IF m.type = "message" /\ text # "" /\ DE_FAMILY_RE_search(text)
                       THEN extract_emails_list(text)
                       ELSE <<>>
         IN C2_Occurrences(n - 1)
                \o SubSeq([e \in 1..Len(emails) |->
                               [text |-> text, email |-> emails[e], key |-> StrLower(emails[e])]],
                          1, Len(emails))

\* The list is, in order, one Contact per first occurrence of an email, each
\* computed from the message of that occurrence.
C2_Expected ==
    LET occ == C2_Occurrences(msg_i)
        first == {i \in 1..Len(occ) : \A j \in 1..(i - 1) : occ[j].key # occ[i].key}
        rank(i) == Cardinality({j \in first : j < i}) + 1
    IN /\ Len(contacts) = Cardinality(first)
       /\ \A i \in first :
              LET c == contacts[rank(i)]
              IN /\ c.email = occ[i].email
                 /\ c.first_name = guess_first_name(occ[i].text, occ[i].email)
                 /\ c.company = guess_company_from_email(occ[i].email)
                 /\ c.custom_line = build_custom_line(data.name, occ[i].text)
       /\ pc = "returned" => ret = contacts

\* a step leaves the Contacts already in the list where and as they are
C2_Extends == Len(contacts') >= Len(contacts) /\ SubSeq(contacts', 1, Len(contacts)) = contacts

\* C2: Contacts are emitted in the order their emails are first met, message
\* by message and left to right in a message; a Contact is computed from the
\* message of that first occurrence, and no later message changes, moves or
\* removes it.
C2_FirstSeenOrder == []C2_Expected /\ [][C2_Extends]_vars

\* The second email of a message is met again, first, in a later message;
\* the two Contacts stay in the order and with the fields of the first one.
C2_Witness ==
    /\ pc = "returned"
    /\ data.messages = <<MsgTwoEmails, MsgEtl, MsgFragments>>
    /\ Len(ret) = 2
    /\ ret[1].email = "b@y.com"
    /\ ret[2].email = "a@x.com"
    /\ ret[2].custom_line = build_custom_line("DE Jobs", "de job: b@y.com or Bob Ray <a@x.com>")

\* the document of the end-to-end scenario yields one Contact, for a@x.com
C3_Scenario ==
    (pc = "returned" /\ data.messages = <<MsgEtl, MsgNoRole>>)
        => (Len(ret) = 1 /\ ret[1].email = "a@x.com")

\* a pass of the loop over a message that is not a role message adds nothing
C3_Gate ==
    (msg_i' = msg_i + 1 /\ ~RoleMessage(data.messages[msg_i + 1])) => contacts' = contacts

\* C3: a message with no role-family token, of another type than "message",
\* or with an empty text produces no Contact, whatever emails it holds.
C3_RoleGating == []C3_Scenario /\ [][C3_Gate]_vars

\* The scenario has run: the message with b@y.com and no role was passed over.
C3_Witness ==
    /\ pc = "returned"
    /\ data.messages = <<MsgEtl, MsgNoRole>>
    /\ extract_emails_list(MessageText(MsgNoRole)) = <<"b@y.com">>
    /\ Len(ret) = 1

\* C4: extract_emails_list gives jane.doe@example.com for the address that a
\* period follows, and nothing for "notanemail@@x".
C4_EmailBoundary ==
    pc = "done" =>
        /\ arg.text = EmailTextPeriod => ret = <<"jane.doe@example.com">>
        /\ arg.text = EmailTextDoubleAt => ret = <<>>

\* C5: guess_first_name gives "John" for "... John Smith <john.smith@acme.com>
\* ...", where other words stand before the name.
C5_NameProximity ==
    (pc = "done" /\ arg.text = NameTextJohn /\ arg.email = "john.smith@acme.com")
        => ret = "John"

\* C6: guess_company_from_email gives "Amazon" for jane@amazon.com and "Mail"
\* for jane@mail.co.uk.
C6_CompanyInference ==
    pc = "done" =>
        /\ arg.email = "jane@amazon.com" => ret = "Amazon"
        /\ arg.email = "jane@mail.co.uk" => ret = "Mail"

\* the snippet a custom line quotes
C7_Quoted(line, chat_name) ==
    SubSeq(line, Len(LineHead) + Len(chat_name) + Len(LineMiddle) + Len(LDQUO) + 1,
           Len(line) - Len(RDQUO))

\* C7: the snippet is the collapsed, trimmed text when that has at most 140
\* characters, and else its first 137 characters and the 3-character marker;
\* it never has more than 140 characters, and a body of 200 characters (that
\* collapsing and trimming leave as it is) gives exactly 140, the marker at
\* 138-140.
C7_SnippetTruncation ==
    pc = "done" =>
        LET sn == C7_Quoted(ret, arg.chat_name)
            norm == Strip(CollapseSpaces(arg.message_text), SpaceSet)
        IN /\ Len(sn) <= 140
           /\ Len(norm) <= 140 => sn = norm
           /\ Len(norm) > 140 => sn = SubSeq(norm, 1, 137) \o "..."
           /\ (Len(arg.message_text) = 200 /\ norm = arg.message_text)
                  => (Len(sn) = 140 /\ SubSeq(sn, 138, 140) = "...")

\* A body of 200 characters has been cut to 140.
C7_Witness ==
    /\ pc = "done"
    /\ arg.message_text = Fill("x", 200)
    /\ Len(C7_Quoted(ret, arg.chat_name)) = 140
    /\ SubSeq(C7_Quoted(ret, arg.chat_name), 137, 140) = "x..."

\* the letters of the first segment of the local part
C8_SegmentLetters(email) == OnlyLetters(BeforeFirst(email, {"@", "+", ".", "_", "-"}))

\* C8: guess_first_name returns a non-empty string: a name token of 2
\* characters or more that stands in the text before the email, or the letters
\* of the first segment of the local part, title-cased, or "there" when that
\* segment has no letter; contact-info@x.io with no name before it gives
\* "Contact".
C8_NameNeverEmpty ==
    pc = "done" =>
        LET seg == C8_SegmentLetters(arg.email)
            idx == Find(StrLower(arg.text), StrLower(arg.email))
        IN /\ Len(ret) >= 1
           /\ \/ seg # "" /\ ret = StrTitle(seg)
              \/ seg = "" /\ ret = "there"
              \/ /\ idx >= 0
                 /\ Len(ret) >= 2
                 /\ Find(StrLower(SubSeq(arg.text, 1, idx)), StrLower(ret)) >= 0
           /\ (arg.text = "contact-info@x.io" /\ arg.email = "contact-info@x.io")
                  => ret = "Contact"

\* The fallback has run on an email whose first segment has no letter.
C8_Witness ==
    /\ pc = "done"
    /\ arg.email = "123@x.io"
    /\ arg.text = "123@x.io today"
    /\ ret = "there"

\* no "@", nothing after it, or only dots after it
C9_NoDomain(email) ==
    LET at == FirstIn(email, 1, {"@"})
    IN \A i \in (at + 1)..Len(email) : Ch(email, i) = "."

\* C9: guess_company_from_email never raises, and returns "" for an email
\* with no domain.
C9_CompanyNeverRaises ==
    /\ pc # "raised"
    /\ (pc = "done" /\ C9_NoDomain(arg.email)) => ret = ""

\* The function has returned "" for an email whose domain is made of dots.
C9_Witness ==
    /\ pc = "done"
    /\ arg.email = "jane@..."
    /\ ret = ""

\* the lower-cased candidate of each line of the file ("" when it has none)
C10_Candidates == [i \in 1..Len(file_lines) |-> StrLower(LineCandidate(file_lines[i]))]

\* recipients is the first MAX_EMAILS (3) distinct addresses of the file, in
\* the order of their first lines; attempts follows recipients one for one.
C10_State ==
    LET cand == C10_Candidates
        uniq == {cand[i] : i \in 1..Len(cand)} \ {""}
        firstLine(c) == Min({i \in 1..Len(cand) : cand[i] = c})
        n == Len(recipients)
    IN /\ pc \in {"auth", "send", "done"} =>
              /\ n = (IF Cardinality(uniq) < 3 THEN Cardinality(uniq) ELSE 3)
              /\ \A k \in 1..n : recipients[k] \in uniq
              /\ \A k \in 1..n : \A l \in 1..n :
                     k < l => firstLine(recipients[k]) < firstLine(recipients[l])
              /\ \A c \in uniq \ {recipients[k] : k \in 1..n} :
                     \A k \in 1..n : firstLine(recipients[k]) < firstLine(c)
       /\ Len(attempts) <= n
       /\ \A k \in 1..Len(attempts) :
              /\ attempts[k].i = k
              /\ attempts[k].to = recipients[k]
              /\ attempts[k].report \in {"SENT", "FAIL"}
       /\ pc = "done" => Len(attempts) = n

\* C10: the recipients are the lower-cased, de-duplicated addresses of the
\* file in first-seen order, cut to MAX_EMAILS; each gets one attempt, in
\* order, whatever the attempts before it ended with; and a run that has
\* entered the send loop reaches Done.
C10_OneAttemptEach == []C10_State /\ ((pc = "send") ~> (pc = "done"))

\* A file with more than MAX_EMAILS distinct addresses: the run is done, the
\* fourth address got no attempt, and attempts followed one that failed.
C10_Witness ==
    /\ pc = "done"
    /\ file_lines = <<"a@x.com", "Bob <b@y.com> ;", "c@z.io d@w.org", "e@v.net (hr)">>
    /\ recipients = <<"a@x.com", "<b@y.com>", "d@w.org">>
    /\ Len(attempts) = 3
    /\ attempts[1].report = "FAIL"
    /\ attempts[3].report = "SENT"
    /\ attempts[3].to = "d@w.org"

====
